---- MODULE Spec2Model ----
(***************************************************************************)
(* Model of the mdot manifest normalizer (src/src/main.rs): the Lua value  *)
(* tree handed to Package::from_pair, the target-list, link and package    *)
(* normalizers, the fatal!/warn! diagnostics, and the loop of main.        *)
(***************************************************************************)
EXTENDS Integers, Sequences, FiniteSets, TLC

(***************************************************************************)
(* mlua::Value.  Every value is a record of the same shape; t is the       *)
(* variant, and only the field of that variant is meaningful.  A Lua       *)
(* string is a byte string: utf8 tells whether its bytes are valid UTF-8.  *)
(* A table is the sequence of its (key, value) pairs in pairs() order.     *)
(***************************************************************************)
Nil == [t |-> "Nil", b |-> FALSE, i |-> 0, s |-> "", utf8 |-> TRUE, p |-> <<>>]

Boolean(x) == [t |-> "Boolean", b |-> x, i |-> 0, s |-> "", utf8 |-> TRUE, p |-> <<>>]

Integer(n) == [t |-> "Integer", b |-> FALSE, i |-> n, s |-> "", utf8 |-> TRUE, p |-> <<>>]

Str(x) == [t |-> "String", b |-> FALSE, i |-> 0, s |-> x, utf8 |-> TRUE, p |-> <<>>]

\* A Lua string whose bytes are not valid UTF-8 (x names the bytes).
Bytes(x) == [t |-> "String", b |-> FALSE, i |-> 0, s |-> x, utf8 |-> FALSE, p |-> <<>>]

Table(pairs) == [t |-> "Table", b |-> FALSE, i |-> 0, s |-> "", utf8 |-> TRUE, p |-> pairs]

Pair(key, value) == [k |-> key, v |-> value]

\* Table::get::<Value>(key): the value stored under key, Nil when absent.
RECURSIVE get(_, _)
get(pairs, key) ==
    IF pairs = <<>> THEN Nil
    ELSE IF Head(pairs).k = key THEN Head(pairs).v
    ELSE get(Tail(pairs), key)

(***************************************************************************)
(* Diagnostics.  warn! logs and continues; fatal! logs an error and exits  *)
(* the process, so nothing after it runs.  A result carries the            *)
(* diagnostics emitted so far, in order; ok = FALSE means the last one is  *)
(* the Fatal at which the process exited.                                  *)
(***************************************************************************)
Warning(msg, args) == [sev |-> "Warning", msg |-> msg, args |-> args]

Fatal(msg, args) == [sev |-> "Fatal", msg |-> msg, args |-> args]

Ok(val, diags) == [ok |-> TRUE, val |-> val, diags |-> diags]

Exit(val, diags) == [ok |-> FALSE, val |-> val, diags |-> diags]

fatal(val, diags, msg, args) == Exit(val, Append(diags, Fatal(msg, args)))

\* lua_str_to_str(&mlua::String): the text, or Fatal on invalid UTF-8.
lua_str_to_str(val) ==
    IF val.utf8 THEN Ok(val.s, <<>>)
    ELSE fatal("", <<>>, "Field contains invalid UTF-8 bytes", <<>>)

\* lua_value_to_str(&Value): the same for a Value, Fatal when not a String.
lua_value_to_str(val) ==
    IF val.t = "String"
    THEN IF val.utf8 THEN Ok(val.s, <<>>)
         ELSE fatal("", <<>>, "Field contains invalid UTF-8 bytes", <<>>)
    ELSE fatal("", <<>>, "expected type 'String', got {:#?}", <<val>>)

\* PathBuf::from(String): the path holds the string unchanged.
PathBuf_from(s) == s

\* tbl.get::<String>(key): mlua's FromLua for String coerces an Integer to
\* its decimal text and fails on anything else (and on invalid UTF-8).
get_String(pairs, key) ==
    LET v == get(pairs, key)
    IN  IF v.t = "String" /\ v.utf8 THEN [ok |-> TRUE, val |-> v.s]
        ELSE IF v.t = "Integer" THEN [ok |-> TRUE, val |-> ToString(v.i)]
        ELSE [ok |-> FALSE, val |-> ""]

has_name(tbl) ==
    get_String(tbl.p, Integer(1)).ok \/ get_String(tbl.p, Str("name")).ok

\* extract_name as it would be if slot 1 silently won over 'name'.
extract_name_slot_wins(tbl) ==
    LET idx_1 == get_String(tbl.p, Integer(1))
        name_key == get_String(tbl.p, Str("name"))
    IN  IF idx_1.ok THEN [ok |-> TRUE, val |-> idx_1.val]
        ELSE IF name_key.ok THEN [ok |-> TRUE, val |-> name_key.val]
        ELSE [ok |-> FALSE,
              val |-> "package must have a name (at index [1] or as 'name' field)"]

extract_name(tbl) ==
    LET idx_1 == get_String(tbl.p, Integer(1))
        name_key == get_String(tbl.p, Str("name"))
    IN  IF idx_1.ok /\ name_key.ok
        THEN [ok |-> FALSE, val |-> "provide 'name' OR [1] but not both."]
        ELSE IF idx_1.ok THEN [ok |-> TRUE, val |-> idx_1.val]
        ELSE IF name_key.ok THEN [ok |-> TRUE, val |-> name_key.val]
        ELSE [ok |-> FALSE,
              val |-> "package must have a name (at index [1] or as 'name' field)"]

\* The loop of parse_target_list over target_list.pairs(): links is the
\* vector built so far.
RECURSIVE parse_target_pairs(_, _)
parse_target_pairs(pairs, links) ==
    IF pairs = <<>> THEN Ok(links, <<>>)
    ELSE LET k == Head(pairs).k
             v == Head(pairs).v
         IN  IF k.t = "Integer" /\ v.t = "String"
             THEN LET s == lua_str_to_str(v)
                  IN  IF s.ok
                      THEN parse_target_pairs(Tail(pairs),
                                              Append(links, PathBuf_from(s.val)))
                      ELSE Exit(<<>>, s.diags)
             ELSE fatal(<<>>, <<>>, "Link invalid target element: [{:#?}] = {:#?}",
                        <<k, v>>)

parse_target_list(targets) ==
    IF targets.t = "String"
    THEN LET s == lua_str_to_str(targets)
         IN  IF s.ok THEN Ok(<<PathBuf_from(s.val)>>, <<>>) ELSE Exit(<<>>, s.diags)
    ELSE IF targets.t = "Table" THEN parse_target_pairs(targets.p, <<>>)
    ELSE fatal(<<>>, <<>>,
               "Link 'targets' expected type 'String' or 'Table', got {:?}",
               <<targets>>)

\* Table::sequence_values(): the values at 1, 2, 3, ... up to the first Nil.
RECURSIVE sequence_values(_, _)
sequence_values(pairs, idx) ==
    IF get(pairs, Integer(idx)) = Nil THEN <<>>
    ELSE <<get(pairs, Integer(idx))>> \o sequence_values(pairs, idx + 1)

\* The map of extract_targets over the sequence values.
RECURSIVE extract_target_values(_, _)
extract_target_values(vals, out) ==
    IF vals = <<>> THEN Ok(out, <<>>)
    ELSE LET v == Head(vals)
         IN  IF v.t = "String"
             THEN LET s == lua_str_to_str(v)
                  IN  IF s.ok
                      THEN extract_target_values(Tail(vals),
                                                 Append(out, PathBuf_from(s.val)))
                      ELSE Exit(<<>>, s.diags)
             ELSE fatal(<<>>, <<>>, "expected 'String', found {:#?}", <<v>>)

extract_targets(value) ==
    IF value.t = "String"
    THEN LET s == lua_value_to_str(value)
         IN  IF s.ok THEN Ok(<<PathBuf_from(s.val)>>, <<>>) ELSE Exit(<<>>, s.diags)
    ELSE IF value.t = "Table"
    THEN extract_target_values(sequence_values(value.p, 1), <<>>)
    ELSE fatal(<<>>, <<>>, "expected 'String' or 'Table', found {:#?}", <<value>>)

(***************************************************************************)
(* LinkObject and Package (structs of main.rs).                            *)
(***************************************************************************)
LinkObject(source, targets, overwrite, backup) ==
    [source |-> source, targets |-> targets, overwrite |-> overwrite,
     backup |-> backup]

\* impl Default for Enabled
Enabled_default == [Enable |-> TRUE]

\* Package::new as it would be if Enabled defaulted to Enable(false).
Package_new_disabled(name) ==
    [name |-> name, package_name |-> "None", enabled |-> [Enable |-> FALSE],
     depends |-> <<>>, links |-> <<>>, excludes |-> <<>>, templates |-> <<>>]

\* Package::new(name): the name, every other field at its Default.
Package_new(name) ==
    [name |-> name, package_name |-> "None", enabled |-> Enabled_default,
     depends |-> <<>>, links |-> <<>>, excludes |-> <<>>, templates |-> <<>>]

\* The object form as it would be if the flags were checked before the
\* source and the targets.
link_object_flags_first(tbl) ==
    LET source == get(tbl.p, Str("source"))
        targets == get(tbl.p, Str("targets"))
        overwrite == get(tbl.p, Str("overwrite"))
        backup == get(tbl.p, Str("backup"))
        src == lua_str_to_str(source)
        tgt == parse_target_list(targets)
    IN  IF overwrite.t \notin {"Boolean", "Nil"}
        THEN fatal(<<>>, <<>>, "Link 'overwrite' expected type 'Boolean', got {:?}",
                   <<overwrite>>)
        ELSE IF backup.t \notin {"Boolean", "Nil"}
        THEN fatal(<<>>, <<>>, "Link 'backup' expected type 'Boolean', got {:?}",
                   <<backup>>)
        ELSE IF source.t = "Nil"
        THEN fatal(<<>>, <<>>, "Link must contain 'source'", <<>>)
        ELSE IF source.t # "String"
        THEN fatal(<<>>, <<>>, "Link 'source' expected type 'String', got {:?}",
                   <<source>>)
        ELSE IF ~src.ok THEN Exit(<<>>, src.diags)
        ELSE IF targets.t = "Nil"
        THEN fatal(<<>>, <<>>, "Link must contain 'targets'", <<>>)
        ELSE IF ~tgt.ok THEN Exit(<<>>, tgt.diags)
        ELSE Ok(LinkObject(PathBuf_from(src.val), tgt.val,
                           IF overwrite.t = "Boolean" THEN overwrite.b ELSE FALSE,
                           IF backup.t = "Boolean" THEN backup.b ELSE FALSE),
                <<>>)

\* The four reads of the object form of a link, in the order of the code:
\* source, targets, overwrite, backup; the first fatal! ends the process.
link_object(tbl) ==
    LET source == get(tbl.p, Str("source"))
        targets == get(tbl.p, Str("targets"))
        overwrite == get(tbl.p, Str("overwrite"))
        backup == get(tbl.p, Str("backup"))
        src == lua_str_to_str(source)
        tgt == parse_target_list(targets)
    IN  IF source.t = "Nil"
        THEN fatal(<<>>, <<>>, "Link must contain 'source'", <<>>)
        ELSE IF source.t # "String"
        THEN fatal(<<>>, <<>>, "Link 'source' expected type 'String', got {:?}",
                   <<source>>)
        ELSE IF ~src.ok THEN Exit(<<>>, src.diags)
        ELSE IF targets.t = "Nil"
        THEN fatal(<<>>, <<>>, "Link must contain 'targets'", <<>>)
        ELSE IF ~tgt.ok THEN Exit(<<>>, tgt.diags)
        ELSE IF overwrite.t \notin {"Boolean", "Nil"}
        THEN fatal(<<>>, <<>>, "Link 'overwrite' expected type 'Boolean', got {:?}",
                   <<overwrite>>)
        ELSE IF backup.t \notin {"Boolean", "Nil"}
        THEN fatal(<<>>, <<>>, "Link 'backup' expected type 'Boolean', got {:?}",
                   <<backup>>)
        ELSE Ok(LinkObject(PathBuf_from(src.val), tgt.val,
                           IF overwrite.t = "Boolean" THEN overwrite.b ELSE FALSE,
                           IF backup.t = "Boolean" THEN backup.b ELSE FALSE),
                <<>>)

\* The map shorthand of a link: the key is the source, the value the targets.
link_shorthand(source, v) ==
    LET src == lua_str_to_str(source)
        tgt == parse_target_list(v)
    IN  IF ~src.ok THEN Exit(<<>>, src.diags)
        ELSE IF ~tgt.ok THEN Exit(<<>>, tgt.diags)
        ELSE Ok(LinkObject(PathBuf_from(src.val), tgt.val, FALSE, FALSE), <<>>)

\* One step of the closure of extract_links: the match on (key, value).
link_entry(key, value) ==
    IF key.t = "Integer" /\ value.t = "Table" THEN link_object(value)
    ELSE IF key.t = "String" THEN link_shorthand(key, value)
    ELSE fatal(<<>>, <<>>, "expected Link element, found {:#?} = {:#?}",
               <<key, value>>)

\* The collection as it would be if a link whose source is already present
\* replaced the earlier one instead of being appended.
RECURSIVE collect_links_merged(_, _)
collect_links_merged(pairs, out) ==
    IF pairs = <<>> THEN Ok(out, <<>>)
    ELSE LET l == link_entry(Head(pairs).k, Head(pairs).v)
         IN  IF ~l.ok THEN Exit(<<>>, l.diags)
             ELSE IF \E n \in 1..Len(out) : out[n].source = l.val.source
             THEN collect_links_merged(
                      Tail(pairs),
                      [n \in 1..Len(out) |->
                          IF out[n].source = l.val.source THEN l.val ELSE out[n]])
             ELSE collect_links_merged(Tail(pairs), Append(out, l.val))

\* tbl.pairs().map(closure).collect(): out is the vector collected so far.
RECURSIVE collect_links(_, _)
collect_links(pairs, out) ==
    IF pairs = <<>> THEN Ok(out, <<>>)
    ELSE LET l == link_entry(Head(pairs).k, Head(pairs).v)
         IN  IF l.ok THEN collect_links(Tail(pairs), Append(out, l.val))
             ELSE Exit(<<>>, l.diags)

extract_links(tbl) == collect_links(tbl.p, <<>>)

(***************************************************************************)
(* Package::from_table.  name is the Option<String> of the outer key.      *)
(***************************************************************************)
None == [some |-> FALSE, val |-> ""]

Some(x) == [some |-> TRUE, val |-> x]

\* The name resolution as it would be if the inner name won over the key.
resolve_name_inner_wins(name, tbl) ==
    LET inner == extract_name(tbl)
    IN  IF name.some
        THEN IF has_name(tbl)
             THEN IF inner.ok
                  THEN Ok(Package_new(inner.val),
                          <<Warning("key Named '{}' overrides package name '{}'",
                                    <<Str(name.val), Str(inner.val)>>)>>)
                  ELSE Ok(Package_new(name.val),
                          <<Warning(inner.val, <<>>)>>)
             ELSE Ok(Package_new(name.val), <<>>)
        ELSE IF inner.ok THEN Ok(Package_new(inner.val), <<>>)
        ELSE fatal(<<>>, <<>>, inner.val, <<>>)

\* Lines 228-254: the package and the diagnostics of the name resolution.
resolve_name(name, tbl) ==
    LET inner == extract_name(tbl)
    IN  IF name.some
        THEN IF has_name(tbl)
             THEN IF inner.ok
                  THEN Ok(Package_new(name.val),
                          <<Warning("key Named '{}' overrides package name '{}'",
                                    <<Str(name.val), Str(inner.val)>>)>>)
                  ELSE Ok(Package_new(name.val),
                          <<Warning(inner.val, <<>>)>>)
             ELSE Ok(Package_new(name.val), <<>>)
        ELSE IF inner.ok THEN Ok(Package_new(inner.val), <<>>)
        ELSE fatal(<<>>, <<>>, inner.val, <<>>)

\* The field walk as it would be if an unknown key were dropped silently.
walk_field_silent(pkg, diags, key, value) ==
    IF key = "links"
    THEN IF value.t = "Table"
         THEN LET l == extract_links(value)
              IN  IF l.ok THEN Ok([pkg EXCEPT !.links = l.val], diags)
                  ELSE Exit(<<>>, diags \o l.diags)
         ELSE fatal(<<>>, diags, "expected 'Table', found '{:?}'", <<value>>)
    ELSE IF key = "name" THEN Ok(pkg, diags)
    ELSE IF key = "excludes"
    THEN LET x == extract_targets(value)
         IN  IF x.ok THEN Ok([pkg EXCEPT !.excludes = x.val], diags)
             ELSE Exit(<<>>, diags \o x.diags)
    ELSE IF key = "templates"
    THEN LET x == extract_targets(value)
         IN  IF x.ok THEN Ok([pkg EXCEPT !.templates = x.val], diags)
             ELSE Exit(<<>>, diags \o x.diags)
    ELSE Ok(pkg, diags)

\* The body of the field walk for one pair whose key is the text key.
walk_field(pkg, diags, key, value) ==
    IF key = "links"
    THEN IF value.t = "Table"
         THEN LET l == extract_links(value)
              IN  IF l.ok THEN Ok([pkg EXCEPT !.links = l.val], diags)
                  ELSE Exit(<<>>, diags \o l.diags)
         ELSE fatal(<<>>, diags, "expected 'Table', found '{:?}'", <<value>>)
    ELSE IF key = "name" THEN Ok(pkg, diags)
    ELSE IF key = "excludes"
    THEN LET x == extract_targets(value)
         IN  IF x.ok THEN Ok([pkg EXCEPT !.excludes = x.val], diags)
             ELSE Exit(<<>>, diags \o x.diags)
    ELSE IF key = "templates"
    THEN LET x == extract_targets(value)
         IN  IF x.ok THEN Ok([pkg EXCEPT !.templates = x.val], diags)
             ELSE Exit(<<>>, diags \o x.diags)
    ELSE Ok(pkg, Append(diags, Warning("key '{}' is ignored", <<Str(key)>>)))

\* Lines 256-279: the loop over tbl.pairs(); pairs whose key is not a
\* String are passed over.
RECURSIVE walk_fields(_, _, _)
walk_fields(pairs, pkg, diags) ==
    IF pairs = <<>> THEN Ok(pkg, diags)
    ELSE LET k == Head(pairs).k
             key == lua_str_to_str(k)
             step == walk_field(pkg, diags, key.val, Head(pairs).v)
         IN  IF k.t # "String" THEN walk_fields(Tail(pairs), pkg, diags)
             ELSE IF ~key.ok THEN Exit(<<>>, diags \o key.diags)
             ELSE IF step.ok THEN walk_fields(Tail(pairs), step.val, step.diags)
             ELSE step

from_table(name, tbl) ==
    LET package == resolve_name(name, tbl)
    IN  IF package.ok THEN walk_fields(tbl.p, package.val, package.diags)
        ELSE package

\* Package::from_pair: Some(package), or the process exits.
from_pair(key, value) ==
    IF key.t = "Integer" /\ value.t = "String"
    THEN LET name == lua_str_to_str(value)
         IN  IF name.ok THEN Ok(Package_new(name.val), <<>>)
             ELSE Exit(<<>>, name.diags)
    ELSE IF key.t = "Integer" /\ value.t = "Table" THEN from_table(None, value)
    ELSE IF key.t = "String" /\ value.t = "Table"
    THEN LET name == lua_str_to_str(key)
         IN  IF name.ok THEN from_table(Some(name.val), value)
             ELSE Exit(<<>>, name.diags)
    ELSE fatal(<<>>, <<>>, "Unsupported package format: {:?} = {:?}",
               <<key, value>>)

(***************************************************************************)
(* Bounds of the explored configurations.                                  *)
(***************************************************************************)
\* Pairs of the top-level table that main iterates over.
MaxEntries == 2

\* Entries of a 'links' table built from the short list of link entries.
MaxLinks == 2

\* Pairs of a table given where a target list is expected.
MaxTargets == 2

(***************************************************************************)
(* The configurations explored: values of the shapes of the schema at the  *)
(* head of main.rs and of the table evaluated in main, and the malformed   *)
(* variants each match arm of the normalizer rejects.                      *)
(***************************************************************************)
DistinctKeys(pairs) ==
    \A m, n \in 1..Len(pairs) : m # n => pairs[m].k # pairs[n].k

\* A string that is not valid UTF-8.
BadBytes == Bytes("\\xFF")

\* What may stand where one target path is expected.
TargetElems == {Str("t"), Str("u"), Boolean(TRUE), BadBytes}

RECURSIVE TargetPairs(_)
TargetPairs(n) ==
    IF n = 0 THEN {<<>>}
    ELSE {Append(pairs, Pair(k, v)) :
             pairs \in TargetPairs(n - 1), k \in {Integer(n), Str("x")},
             v \in TargetElems}

\* What may stand where a target list is expected: a scalar, or a table of
\* up to MaxTargets pairs (positional or keyed, with or without gaps).
TargetValues ==
    {Str("t"), Str(""), BadBytes, Boolean(TRUE), Integer(3)}
    \cup {Table(pairs) : pairs \in {q \in UNION {TargetPairs(n) : n \in 0..MaxTargets} :
                                        DistinctKeys(q)}}

\* A table holding the given fields, absent (Nil) ones left out.
RECURSIVE Fields(_)
Fields(pairs) ==
    IF pairs = <<>> THEN <<>>
    ELSE IF Head(pairs).v = Nil THEN Fields(Tail(pairs))
    ELSE <<Head(pairs)>> \o Fields(Tail(pairs))

\* Object-form link tables: every combination of a present, absent and
\* ill-typed source, targets, overwrite and backup.
LinkTables ==
    {Table(Fields(<<Pair(Str("source"), source), Pair(Str("targets"), targets),
                    Pair(Str("overwrite"), overwrite), Pair(Str("backup"), backup)>>)) :
        source \in {Nil, Str("s"), Integer(1), BadBytes},
        targets \in {Nil, Str("t"), Table(<<Pair(Integer(1), Str("t")),
                                            Pair(Integer(2), Str("u"))>>),
                     Table(<<>>), Boolean(TRUE),
                     Table(<<Pair(Str("x"), Str("t"))>>)},
        overwrite \in {Nil, Boolean(TRUE), Str("yes")},
        backup \in {Nil, Boolean(TRUE), Boolean(FALSE), Integer(1)}}

\* The short list of link entries that may stand at position n of a longer
\* 'links' table: links sharing a source or a target, both forms, and two
\* entries that are rejected.
LinkEntries(n) ==
    {Pair(Integer(n), Table(<<Pair(Str("source"), Str("s")),
                              Pair(Str("targets"), Str("t"))>>)),
     Pair(Integer(n), Table(<<Pair(Str("targets"),
                                   Table(<<Pair(Integer(1), Str("t")),
                                           Pair(Integer(2), Str("u"))>>)),
                              Pair(Str("overwrite"), Boolean(TRUE)),
                              Pair(Str("source"), Str("s"))>>)),
     Pair(Integer(n), Table(<<Pair(Str("source"), Str("r")),
                              Pair(Str("targets"), Str("t")),
                              Pair(Str("backup"), Boolean(TRUE))>>)),
     Pair(Integer(n), Table(<<Pair(Str("source"), Str("s"))>>)),
     Pair(Str("s"), Str("t")),
     Pair(Str("r"), Table(<<Pair(Integer(1), Str("u"))>>)),
     Pair(Integer(n), Str("t"))}

RECURSIVE LinkPairs(_)
LinkPairs(n) ==
    IF n = 0 THEN {<<>>}
    ELSE {Append(pairs, e) : pairs \in LinkPairs(n - 1), e \in LinkEntries(n)}

\* The 'links' tables: one entry of any shape, or up to MaxLinks entries
\* of the short list.
LinksTables ==
    {Table(<<Pair(Integer(1), l)>>) : l \in LinkTables}
    \cup {Table(<<Pair(k, v)>>) : k \in {Str("s"), BadBytes}, v \in TargetValues}
    \cup {Table(<<Pair(Boolean(TRUE), Str("t"))>>),
          Table(<<Pair(Integer(1), Boolean(TRUE))>>)}
    \cup {Table(pairs) : pairs \in {q \in UNION {LinkPairs(n) : n \in 0..MaxLinks} :
                                        DistinctKeys(q)}}

\* Package tables that vary the name sources and the kinds of field.
NameTables ==
    {Table(Fields(IF rev
                  THEN <<Pair(Integer(1), slot), other, Pair(Str("links"), links),
                         Pair(Str("excludes"), excludes), Pair(Str("name"), name)>>
                  ELSE <<Pair(Integer(1), slot), Pair(Str("name"), name),
                         Pair(Str("excludes"), excludes), Pair(Str("links"), links),
                         other>>)) :
        slot \in {Nil, Str("a"), Str(""), Integer(7), Boolean(TRUE), BadBytes},
        name \in {Nil, Str("b"), Boolean(FALSE)},
        other \in {Pair(Nil, Nil), Pair(Str("depends"), Table(<<>>)),
                   Pair(Str("enabled"), Boolean(FALSE)),
                   Pair(Integer(2), Str("y")), Pair(BadBytes, Str("y"))},
        excludes \in {Nil, Str("e"), Boolean(TRUE)},
        links \in {Nil, Table(<<Pair(Str("s"), Str("t"))>>), Str("l")},
        rev \in BOOLEAN}

\* Package tables named p that vary one field over all its values.
FieldTables ==
    {Table(<<Pair(Str("name"), Str("p")), Pair(Str("links"), l)>>) : l \in LinksTables}
    \cup {Table(<<Pair(Str("name"), Str("p")), Pair(k, v)>>) :
             k \in {Str("excludes"), Str("templates")}, v \in TargetValues}
    \cup {Table(<<Pair(Str("name"), Str("p")),
                  Pair(Str("links"),
                       Table(<<Pair(Integer(1),
                                    Table(<<Pair(Str("source"), Str("s")),
                                            Pair(Str("targets"), v)>>))>>))>>) :
             v \in TargetValues}

\* The keys of the top-level table.
IntegerKeys == {Integer(n) : n \in 1..MaxEntries}

StringKeys == {Str("k"), Str(""), BadBytes}

\* The (key, value) pairs the top-level table may hold.
Entries ==
    {Pair(k, v) : k \in IntegerKeys \cup StringKeys \cup {Boolean(TRUE)},
                  v \in {Str("fish"), Str(""), BadBytes, Integer(7), Boolean(TRUE)}}
    \cup {Pair(k, v) : k \in IntegerKeys \cup StringKeys, v \in NameTables}
    \cup {Pair(k, v) : k \in IntegerKeys, v \in FieldTables}
    \cup {Pair(Boolean(TRUE), Table(<<Pair(Str("name"), Str("p"))>>))}

(***************************************************************************)
(* main: the loop "for pair in res.pairs()" over the top-level table.      *)
(*   pc     where main is: "iter" at the head of the loop, "info" after    *)
(*          from_pair returned, "done" after main returned Ok(()),         *)
(*          "exit" after fatal! called std::process::exit(1)               *)
(*   pos    pairs the iterator has yielded and the loop has finished       *)
(*   seen   the keys of the pairs yielded so far                           *)
(*   cur    the pair (key, value) of the current iteration                 *)
(*   res    what from_pair did with it: the package and the diagnostics    *)
(*   nInfo  packages printed by info!                                      *)
(***************************************************************************)
VARIABLES pc, pos, seen, cur, res, nInfo

vars == <<pc, pos, seen, cur, res, nInfo>>

NoPair == Pair(Nil, Nil)

NoResult == Ok(<<>>, <<>>)

Init ==
    /\ pc = "iter"
    /\ pos = 0
    /\ seen = {}
    /\ cur = NoPair
    /\ res = NoResult
    /\ nInfo = 0

\* Lines 456-458: the iterator yields the next pair and from_pair returns
\* Some(package) for it.
FromPair ==
    /\ pc = "iter"
    /\ pos < MaxEntries
    /\ \E e \in Entries :
          /\ e.k \notin seen
          /\ from_pair(e.k, e.v).ok
          /\ cur' = e
          /\ res' = from_pair(e.k, e.v)
          /\ seen' = seen \cup {e.k}
    /\ pc' = "info"
    /\ UNCHANGED <<pos, nInfo>>

\* The Fatal step as it would be if fatal! logged the error without
\* exiting: the loop goes on to print the entry.
FromPairFatal_continues ==
    /\ pc = "iter"
    /\ pos < MaxEntries
    /\ \E e \in Entries :
          /\ e.k \notin seen
          /\ ~from_pair(e.k, e.v).ok
          /\ cur' = e
          /\ res' = from_pair(e.k, e.v)
          /\ seen' = seen \cup {e.k}
    /\ pc' = "info"
    /\ UNCHANGED <<pos, nInfo>>

\* Lines 456-458 and 43-48: from_pair reaches a fatal!, which logs the
\* error and exits the process.
FromPairFatal ==
    /\ pc = "iter"
    /\ pos < MaxEntries
    /\ \E e \in Entries :
          /\ e.k \notin seen
          /\ ~from_pair(e.k, e.v).ok
          /\ cur' = e
          /\ res' = from_pair(e.k, e.v)
          /\ seen' = seen \cup {e.k}
    /\ pc' = "exit"
    /\ UNCHANGED <<pos, nInfo>>

\* Line 459: the package is printed, then dropped at the end of the body.
Info ==
    /\ pc = "info"
    /\ nInfo' = nInfo + 1
    /\ pos' = pos + 1
    /\ cur' = NoPair
    /\ res' = NoResult
    /\ pc' = "iter"
    /\ UNCHANGED seen

\* Line 462: the iterator is exhausted and main returns Ok(()).
Return ==
    /\ pc = "iter"
    /\ pc' = "done"
    /\ UNCHANGED <<pos, seen, cur, res, nInfo>>

Next ==
    \/ FromPair
    \/ FromPairFatal
    \/ Info
    \/ Return

Spec == Init /\ [][Next]_vars

(***************************************************************************)
(* Vocabulary of the properties.                                           *)
(***************************************************************************)
\* from_pair has been called on cur and res is what it did.
Called == pc \in {"info", "exit"}

\* A String value in the sense of the specification: text.
IsText(v) == v.t = "String" /\ v.utf8

\* A value that supplies a name: text, or a number Lua converts to text.
Supplied(v) == IsText(v) \/ v.t = "Integer"

NameOf(v) == IF v.t = "String" THEN v.s ELSE ToString(v.i)

Slot1(tbl) == get(tbl.p, Integer(1))

NameField(tbl) == get(tbl.p, Str("name"))

OverrideMsg == "key Named '{}' overrides package name '{}'"

BothMsg == "provide 'name' OR [1] but not both."

NoNameMsg == "package must have a name (at index [1] or as 'name' field)"

IgnoredMsg == "key '{}' is ignored"

LastDiag(r) == r.diags[Len(r.diags)]

\* The process exited on a Fatal with message msg.
FatalWith(r, msg) ==
    /\ ~r.ok
    /\ r.diags # <<>>
    /\ LastDiag(r).sev = "Fatal"
    /\ LastDiag(r).msg = msg

WarningCount(r) == Cardinality({n \in 1..Len(r.diags) : r.diags[n].sev = "Warning"})

\* The package the specification gives for a bare name.
BarePackage(name) ==
    [name |-> name, package_name |-> "None", enabled |-> [Enable |-> TRUE],
     depends |-> <<>>, links |-> <<>>, excludes |-> <<>>, templates |-> <<>>]

(***************************************************************************)
(* C1.  A named table that also supplies an inner name.                    *)
(***************************************************************************)
C1Case ==
    /\ Called
    /\ IsText(cur.k)
    /\ cur.v.t = "Table"
    /\ (Supplied(Slot1(cur.v)) \/ Supplied(NameField(cur.v)))

\* C1 as stated: for every top-level entry with a String key and a Table
\* value that supplies an inner name, normalization succeeds, the package is
\* named by the outer key, and exactly one Warning is emitted.
C1_AsStated ==
    C1Case => /\ res.ok
              /\ res.val.name = cur.k.s
              /\ WarningCount(res) = 1

\* The table holds nothing but its name sources.
OnlyNameSources(tbl) ==
    \A n \in 1..Len(tbl.p) : tbl.p[n].k \in {Integer(1), Str("name")}

\* C1 amended: for such an entry the name resolution is never Fatal and
\* emits exactly one Warning, the first diagnostic; the package, when the
\* field walk completes, is named by the outer key; every further Warning
\* is an ignored key of the field walk; and when the table holds nothing
\* but its name sources normalization succeeds with that single Warning.
C1_OuterKeyWins ==
    C1Case =>
        /\ res.diags # <<>>
        /\ res.diags[1].sev = "Warning"
        /\ res.diags[1].msg \in {OverrideMsg, BothMsg}
        /\ \A n \in 2..Len(res.diags) :
              /\ res.diags[n].msg \notin {OverrideMsg, BothMsg, NoNameMsg}
              /\ res.diags[n].sev = "Warning" => res.diags[n].msg = IgnoredMsg
        /\ res.ok => res.val.name = cur.k.s
        /\ OnlyNameSources(cur.v) => res.ok /\ WarningCount(res) = 1

\* A named table with both inner name sources became a package named by the key.
C1_Witness ==
    /\ pc = "info"
    /\ cur.k = Str("k")
    /\ cur.v.t = "Table"
    /\ Slot1(cur.v) = Str("a")
    /\ NameField(cur.v) = Str("b")
    /\ res.ok
    /\ res.val.name = "k"
    /\ res.diags[1].msg = BothMsg

(***************************************************************************)
(* C2.  An anonymous table: the name comes from the table itself.          *)
(***************************************************************************)
C2Case == Called /\ cur.k.t = "Integer" /\ cur.v.t = "Table"

\* C2: for an entry with an Integer key and a Table value, normalization is
\* Fatal when the table supplies both slot 1 and 'name', Fatal when it
\* supplies neither, and otherwise the package is named by the one supplied.
C2_AnonymousName ==
    C2Case =>
        /\ Supplied(Slot1(cur.v)) /\ Supplied(NameField(cur.v))
              => FatalWith(res, BothMsg) /\ Len(res.diags) = 1
        /\ ~Supplied(Slot1(cur.v)) /\ ~Supplied(NameField(cur.v))
              => FatalWith(res, NoNameMsg) /\ Len(res.diags) = 1
        /\ Supplied(Slot1(cur.v)) /\ ~Supplied(NameField(cur.v))
              => /\ res.ok => res.val.name = NameOf(Slot1(cur.v))
                 /\ ~res.ok => LastDiag(res).msg \notin {BothMsg, NoNameMsg}
        /\ ~Supplied(Slot1(cur.v)) /\ Supplied(NameField(cur.v))
              => /\ res.ok => res.val.name = NameOf(NameField(cur.v))
                 /\ ~res.ok => LastDiag(res).msg \notin {BothMsg, NoNameMsg}

\* An anonymous table with both name sources ended the process.
C2_Witness ==
    /\ pc = "exit"
    /\ cur.k.t = "Integer"
    /\ cur.v.t = "Table"
    /\ Slot1(cur.v) = Str("a")
    /\ NameField(cur.v) = Str("b")
    /\ FatalWith(res, BothMsg)

(***************************************************************************)
(* C3.  A bare string.                                                     *)
(***************************************************************************)
\* C3: for an entry with an Integer key and a String value s, from_pair
\* returns the package named s with every other field at its default, and
\* emits no diagnostic.
C3_BareString ==
    Called /\ cur.k.t = "Integer" /\ IsText(cur.v)
        => res = Ok(BarePackage(cur.v.s), <<>>)

\* The bare string "fish" became the package fish.
C3_Witness ==
    /\ pc = "info"
    /\ cur.k.t = "Integer"
    /\ cur.v = Str("fish")
    /\ res.ok
    /\ res.val.name = "fish"

(***************************************************************************)
(* C4.  The pass over the top-level table.                                 *)
(***************************************************************************)
\* C4: the pass ends in one of two states, success (main returned, every
\* entry normalized) or failure (the first Fatal); at the first Fatal the
\* pass stops at once, no package is printed for the failing entry or for
\* any later one, and nothing runs after either end.
C4_TwoTerminalStates ==
    /\ [](/\ pc \in {"iter", "info", "done", "exit"}
          /\ pc = "info" => res.ok /\ nInfo = pos /\ Cardinality(seen) = pos + 1
          /\ pc \in {"iter", "done"} => nInfo = pos /\ Cardinality(seen) = pos
          /\ pc = "exit" => /\ ~res.ok
                            /\ LastDiag(res).sev = "Fatal"
                            /\ \A n \in 1..(Len(res.diags) - 1) :
                                  res.diags[n].sev = "Warning"
                            /\ nInfo = pos
                            /\ Cardinality(seen) = pos + 1)
    /\ [][/\ pc \in {"done", "exit"} => UNCHANGED vars
          /\ pc' = "exit" => pc = "iter" /\ nInfo' = nInfo /\ pos' = pos
          /\ nInfo' # nInfo => pc = "info" /\ res.ok /\ nInfo' = nInfo + 1]_vars

\* The second entry was Fatal after the first had been printed.
C4_Witness ==
    /\ pc = "exit"
    /\ pos = 1
    /\ nInfo = 1
    /\ ~res.ok

(***************************************************************************)
(* C5, C6.  Non-empty targets and names.                                   *)
(***************************************************************************)
\* C5: every LinkObject of a package that normalized without a Fatal has a
\* non-empty targets list.
C5_TargetsNonEmpty ==
    pc = "info" =>
        \A n \in 1..Len(res.val.links) : res.val.links[n].targets # <<>>

\* C6: every package produced by normalization has a non-empty name.
C6_NameNonEmpty ==
    pc = "info" => res.val.name # ""

(***************************************************************************)
(* C7.  Where a target list is parsed.                                     *)
(***************************************************************************)
LinksField(tbl) == get(tbl.p, Str("links"))

\* A target list as the specification accepts it: a String, or a Table all
\* of whose pairs are (Integer key, String value).
AcceptableTargets(v) ==
    \/ v.t = "String"
    \/ /\ v.t = "Table"
       /\ \A n \in 1..Len(v.p) : v.p[n].k.t = "Integer" /\ v.p[n].v.t = "String"

\* C7: wherever a target list is parsed (a link's targets, a package's
\* excludes, a package's templates) anything but a String or a Table of
\* (Integer key, String value) pairs is Fatal: a package that normalized
\* holds only acceptable target lists.
C7_StrictTargetLists ==
    pc = "info" /\ cur.v.t = "Table" =>
        /\ \A key \in {"excludes", "templates"} :
              get(cur.v.p, Str(key)) # Nil
                  => AcceptableTargets(get(cur.v.p, Str(key)))
        /\ LinksField(cur.v).t = "Table" =>
              \A n \in 1..Len(LinksField(cur.v).p) :
                  LET e == LinksField(cur.v).p[n]
                  IN  /\ e.k.t = "Integer" /\ e.v.t = "Table"
                            => AcceptableTargets(get(e.v.p, Str("targets")))
                      /\ e.k.t = "String" => AcceptableTargets(e.v)

(***************************************************************************)
(* C8, C10.  The links of a package.                                       *)
(***************************************************************************)
InvalidUtf8Msg == "Field contains invalid UTF-8 bytes"

\* The Fatal the specification gives for a target list, "none" when it is
\* valid: the first pair that is not (Integer key, String value) is cited.
TargetsFatal(v) ==
    IF v.t = "String" THEN (IF v.utf8 THEN "none" ELSE InvalidUtf8Msg)
    ELSE IF v.t # "Table"
    THEN "Link 'targets' expected type 'String' or 'Table', got {:?}"
    ELSE LET bad == {n \in 1..Len(v.p) :
                        ~(v.p[n].k.t = "Integer" /\ IsText(v.p[n].v))}
             first == CHOOSE n \in bad : \A m \in bad : n <= m
         IN  IF bad = {} THEN "none"
             ELSE IF v.p[first].k.t = "Integer" /\ v.p[first].v.t = "String"
             THEN InvalidUtf8Msg
             ELSE "Link invalid target element: [{:#?}] = {:#?}"

\* The paths of a valid target list, in the order given.
TargetsOf(v) ==
    IF v.t = "String" THEN <<v.s>>
    ELSE [n \in 1..Len(v.p) |-> v.p[n].v.s]

Flag(v) == IF v.t = "Boolean" THEN v.b ELSE FALSE

\* The Fatal the specification gives for an object-form link, "none" when
\* it is valid: source, targets, overwrite and backup are checked in turn.
ObjectFatal(tbl) ==
    LET source == get(tbl.p, Str("source"))
        targets == get(tbl.p, Str("targets"))
        overwrite == get(tbl.p, Str("overwrite"))
        backup == get(tbl.p, Str("backup"))
    IN  IF source.t = "Nil" THEN "Link must contain 'source'"
        ELSE IF source.t # "String"
        THEN "Link 'source' expected type 'String', got {:?}"
        ELSE IF ~source.utf8 THEN InvalidUtf8Msg
        ELSE IF targets.t = "Nil" THEN "Link must contain 'targets'"
        ELSE IF TargetsFatal(targets) # "none" THEN TargetsFatal(targets)
        ELSE IF overwrite.t \notin {"Nil", "Boolean"}
        THEN "Link 'overwrite' expected type 'Boolean', got {:?}"
        ELSE IF backup.t \notin {"Nil", "Boolean"}
        THEN "Link 'backup' expected type 'Boolean', got {:?}"
        ELSE "none"

\* A valid entry of a 'links' table, in either form.
ValidLink(e) ==
    \/ e.k.t = "Integer" /\ e.v.t = "Table" /\ ObjectFatal(e.v) = "none"
    \/ IsText(e.k) /\ TargetsFatal(e.v) = "none"

\* The LinkObject the specification gives for a valid entry.
LinkOf(e) ==
    IF e.k.t = "String"
    THEN [source |-> e.k.s, targets |-> TargetsOf(e.v), overwrite |-> FALSE,
          backup |-> FALSE]
    ELSE [source |-> get(e.v.p, Str("source")).s,
          targets |-> TargetsOf(get(e.v.p, Str("targets"))),
          overwrite |-> Flag(get(e.v.p, Str("overwrite"))),
          backup |-> Flag(get(e.v.p, Str("backup")))]

\* An anonymous table that holds a name and a 'links' table, nothing else.
LinksCase ==
    /\ Called
    /\ cur.k.t = "Integer"
    /\ cur.v.t = "Table"
    /\ Len(cur.v.p) = 2
    /\ cur.v.p[1].k = Str("name")
    /\ IsText(cur.v.p[1].v)
    /\ cur.v.p[2].k = Str("links")
    /\ cur.v.p[2].v.t = "Table"

\* C8: a 'links' table whose entries L1..LN are all valid yields exactly N
\* LinkObjects, the n-th built from Ln, in the order of the table; entries
\* sharing a source or a target are neither merged, dropped nor reordered.
C8_LinkOrder ==
    Called /\ cur.v.t = "Table" /\ LinksField(cur.v).t = "Table"
           /\ (\A n \in 1..Len(LinksField(cur.v).p) : ValidLink(LinksField(cur.v).p[n]))
        => /\ res.ok =>
                /\ Len(res.val.links) = Len(LinksField(cur.v).p)
                /\ \A n \in 1..Len(res.val.links) :
                      res.val.links[n] = LinkOf(LinksField(cur.v).p[n])
           /\ LinksCase => res.ok

\* Two links with the same source and a common target were both kept, in order.
C8_Witness ==
    /\ pc = "info"
    /\ LinksCase
    /\ Len(res.val.links) = 2
    /\ res.val.links[1].source = res.val.links[2].source
    /\ res.val.links[1].targets = <<"t">>
    /\ res.val.links[2].targets = <<"t", "u">>
    /\ res.val.links[2].overwrite

\* C10: an object-form link entry is Fatal when 'source' is absent or not a
\* String, when 'targets' is absent (or does not parse), when 'overwrite' or
\* 'backup' is present and not a Bool; the checks run in that order and the
\* first one violated gives the Fatal; otherwise the LinkObject carries the
\* source, the parsed targets and the flags, false when absent.
C10_ObjectForm ==
    LinksCase /\ Len(LinksField(cur.v).p) >= 1
              /\ LinksField(cur.v).p[1].k.t = "Integer"
              /\ LinksField(cur.v).p[1].v.t = "Table"
        => LET obj == LinksField(cur.v).p[1].v
           IN  /\ ObjectFatal(obj) # "none"
                     => FatalWith(res, ObjectFatal(obj)) /\ Len(res.diags) = 1
               /\ ObjectFatal(obj) = "none"
                     => /\ res.ok =>
                              res.val.links[1] =
                                  [source |-> get(obj.p, Str("source")).s,
                                   targets |-> TargetsOf(get(obj.p, Str("targets"))),
                                   overwrite |-> Flag(get(obj.p, Str("overwrite"))),
                                   backup |-> Flag(get(obj.p, Str("backup")))]
                        /\ Len(LinksField(cur.v).p) = 1 => res.ok

\* A link whose targets are absent and whose flags are both ill-typed was
\* rejected for its targets.
C10_Witness ==
    /\ pc = "exit"
    /\ LinksCase
    /\ Len(LinksField(cur.v).p) = 1
    /\ LinksField(cur.v).p[1].k.t = "Integer"
    /\ LinksField(cur.v).p[1].v.t = "Table"
    /\ get(LinksField(cur.v).p[1].v.p, Str("source")) = Str("s")
    /\ get(LinksField(cur.v).p[1].v.p, Str("targets")) = Nil
    /\ get(LinksField(cur.v).p[1].v.p, Str("overwrite")) = Str("yes")
    /\ get(LinksField(cur.v).p[1].v.p, Str("backup")) = Integer(1)
    /\ FatalWith(res, "Link must contain 'targets'")

(***************************************************************************)
(* C9.  Keys the field walk does not know.                                 *)
(***************************************************************************)
KnownKeys == {Str("links"), Str("excludes"), Str("templates"), Str("name")}

\* The 'key is ignored' Warnings of a result, in order.
IgnoredWarnings(r) ==
    LET IsIgnored(d) == d.sev = "Warning" /\ d.msg = IgnoredMsg
    IN  SelectSeq(r.diags, IsIgnored)

\* C9 as stated: every entry of a package table whose key is not 'links',
\* 'excludes', 'templates' or 'name' causes a 'key is ignored' Warning.
C9_AsStated ==
    pc = "info" /\ cur.v.t = "Table" =>
        Len(IgnoredWarnings(res)) =
            Cardinality({n \in 1..Len(cur.v.p) : cur.v.p[n].k \notin KnownKeys})

\* The pairs of a table whose key is a String the field walk does not know.
UnknownFields(tbl) ==
    LET IsUnknown(e) == IsText(e.k) /\ e.k \notin KnownKeys
    IN  SelectSeq(tbl.p, IsUnknown)

\* The table without its n-th pair.
Without(tbl, n) == Table(SubSeq(tbl.p, 1, n - 1) \o SubSeq(tbl.p, n + 1, Len(tbl.p)))

\* The diagnostics without the Warning that cites key.
WithoutWarning(diags, key) ==
    LET Other(d) == ~(d.msg = IgnoredMsg /\ d.args = <<key>>)
    IN  SelectSeq(diags, Other)

\* C9 amended: every entry whose key is a String other than 'links',
\* 'excludes', 'templates' and 'name' causes one 'key is ignored' Warning
\* citing it, and its value is discarded: the pass continues, and the
\* package (depends, enabled and package_name at their defaults) and the
\* other diagnostics are those of the same table without that entry.
\* Entries whose key is not a String, such as slot 1, are passed over with
\* no Warning.
C9_UnknownKeysIgnored ==
    Called /\ cur.v.t = "Table" =>
        /\ res.ok =>
              /\ Len(IgnoredWarnings(res)) = Len(UnknownFields(cur.v))
              /\ \A n \in 1..Len(UnknownFields(cur.v)) :
                    IgnoredWarnings(res)[n].args = <<UnknownFields(cur.v)[n].k>>
              /\ res.val.depends = <<>>
              /\ res.val.enabled = [Enable |-> TRUE]
              /\ res.val.package_name = "None"
        /\ \A n \in 1..Len(cur.v.p) :
              IsText(cur.v.p[n].k) /\ cur.v.p[n].k \notin KnownKeys
                  => /\ from_pair(cur.k, Without(cur.v, n)).ok = res.ok
                     /\ res.ok =>
                           /\ from_pair(cur.k, Without(cur.v, n)).val = res.val
                           /\ from_pair(cur.k, Without(cur.v, n)).diags
                                 = WithoutWarning(res.diags, cur.v.p[n].k)
                           /\ WithoutWarning(res.diags, cur.v.p[n].k) # res.diags

\* A table with a 'depends' field and a second slot normalized with one
\* Warning, for 'depends', and empty depends.
C9_Witness ==
    /\ pc = "info"
    /\ cur.v.t = "Table"
    /\ get(cur.v.p, Str("depends")) # Nil
    /\ Slot1(cur.v) = Str("a")
    /\ get(cur.v.p, Str("excludes")) = Str("e")
    /\ Len(IgnoredWarnings(res)) = 1
    /\ IgnoredWarnings(res)[1].args = <<Str("depends")>>
    /\ res.val.depends = <<>>
    /\ res.val.excludes = <<"e">>

====
